---- MODULE Spec2Model ----
(***************************************************************************)
(* Hostel management application (src/app51.py): the relational store      *)
(* (users, students, rooms, allocations, payments, issues), the request    *)
(* handlers that write it, and SQLite's transaction behaviour underneath.  *)
(*                                                                         *)
(* Spec        rooms, students, allocations: requests processed one at a   *)
(*             time, one action per handler.                               *)
(* LedgerSpec  the same with payments and issues, from a populated store.  *)
(* RegSpec     registration and the user and student forms.                *)
(* ConcSpec    allocate/release requests on separate connections,          *)
(*             interleaved statement by statement, with aborts.            *)
(* PaySpec     payments through the admin form and the portal, with proof  *)
(*             files; ProofSpec adds the clock of the stored names.        *)
(* IssueSpec   the issue tracker used by an admin, a student and a warden. *)
(* AuthSpec    one browser logging in and out and requesting every route.  *)
(* FrameSpec   room deletion among allocations, payments and issues.       *)
(* RoleSpec    users created with any role field, logging in and following *)
(*             redirects; RoleLiveSpec adds fairness of the browser.       *)
(* UploadSpec  proof files stored for two students and read by everyone.   *)
(* PortalSpec  the portal payment form sent by sessions of every kind.     *)
(***************************************************************************)
EXTENDS Integers, FiniteSets, Sequences, TLC

VARIABLES db, resp, conn, writer, tx, session, files, now

vars == <<db, resp, conn, writer, tx, session, files, now>>

\* a step that involves no browser session, no uploaded file and no clock tick
Untouched == UNCHANGED <<session, files, now>>

\* ------------------------------------------------------------------ bounds
MaxRooms == 2
MaxStudents == 2
MaxAllocs == 3
MaxPayments == 1
MaxIssues == 1
MaxUsers == 3
MaxCapacity == 2
\* rows ever inserted, all tables together (the seeded admin not counted)
MaxRows == 5
\* payments or issues submitted through the browser, and seconds on the server's clock
MaxSubmissions == 2
MaxClock == 1
\* changes committed through the browser in a run that visits every route
MaxWrites == 1

\* SQL NULL / Python None (row ids start at 1)
NULL == 0

Numbers == {"A1", "B2"}
Emails == {"e1", "e2"}
Usernames == {"admin", "u1", "u2"}
Today == "today"
Conns == {"c1", "c2"}

\* the browsers that hold a session cookie
Clients == {"b1", "b2", "b3"}

\* a cleared session: no 'user_id', no 'role'
LoggedOut == [user_id |-> NULL, role |-> ""]
NoSessions == [c \in Clients |-> LoggedOut]

\* no browser is logged in, the upload folder is empty, the clock starts at 0
Fresh == session = NoSessions /\ files = {} /\ now = 0

\* -------------------------------------------------------------- file names
\* A file name is the sequence of its characters.
UpperCase == <<"A", "B", "C", "D", "E", "F", "G", "H", "I", "J", "K", "L", "M",
               "N", "O", "P", "Q", "R", "S", "T", "U", "V", "W", "X", "Y", "Z">>
LowerCase == <<"a", "b", "c", "d", "e", "f", "g", "h", "i", "j", "k", "l", "m",
               "n", "o", "p", "q", "r", "s", "t", "u", "v", "w", "x", "y", "z">>
DigitChars == <<"0", "1", "2", "3", "4", "5", "6", "7", "8", "9">>

ALLOWED_EXTS ==
  {<<"p", "n", "g">>, <<"j", "p", "g">>, <<"j", "p", "e", "g">>, <<"w", "e", "b", "p">>,
   <<"g", "i", "f">>, <<"b", "m", "p">>, <<"h", "e", "i", "c">>, <<"p", "d", "f">>}

\* str.lower()
LowerChar(ch) ==
  IF \E i \in 1..26 : UpperCase[i] = ch
    THEN LowerCase[CHOOSE i \in 1..26 : UpperCase[i] = ch]
    ELSE ch
Lower(w) == [i \in 1..Len(w) |-> LowerChar(w[i])]

\* filename.rsplit('.', 1)[1], for a name that holds a dot
Extension(w) ==
  LET last == CHOOSE i \in 1..Len(w) : w[i] = "." /\ \A j \in (i + 1)..Len(w) : w[j] # "."
  IN SubSeq(w, last + 1, Len(w))

\* an upload check that compares the extension as typed
allowed_file_exact(w) ==
  (\E i \in 1..Len(w) : w[i] = ".") /\ Extension(w) \in ALLOWED_EXTS

\* '.' in filename and filename.rsplit('.', 1)[1].lower() in ALLOWED_EXTS
allowed_file(w) ==
  (\E i \in 1..Len(w) : w[i] = ".") /\ Lower(Extension(w)) \in ALLOWED_EXTS

\* werkzeug's secure_filename: path separators become blanks, runs of blanks
\* become one "_" (none at the ends), every character outside
\* [A-Za-z0-9_.-] is removed, and leading and trailing "." and "_" are stripped
SafeChars ==
  {UpperCase[i] : i \in 1..26} \cup {LowerCase[i] : i \in 1..26}
    \cup {DigitChars[i] : i \in 1..10} \cup {"_", ".", "-"}

IsBlank(ch) == ch \in {" ", "/"}

Strip(w, chars) ==
  LET keep == {i \in 1..Len(w) : w[i] \notin chars} IN
    IF keep = {} THEN <<>>
    ELSE SubSeq(w, CHOOSE i \in keep : \A j \in keep : i <= j,
                   CHOOSE i \in keep : \A j \in keep : j <= i)

secure_filename(w) ==
  LET joined == [i \in 1..Len(w) |->
                   IF ~IsBlank(w[i]) THEN w[i]
                   ELSE IF i > 1 /\ ~IsBlank(w[i - 1])
                           /\ \E j \in (i + 1)..Len(w) : ~IsBlank(w[j])
                     THEN "_" ELSE ""]
  IN Strip(SelectSeq(joined, LAMBDA ch : ch \in SafeChars), {".", "_"})

\* str(n) of a natural number
RECURSIVE Decimal(_)
Decimal(n) ==
  IF n < 10 THEN <<DigitChars[n + 1]>>
            ELSE Decimal(n \div 10) \o <<DigitChars[(n % 10) + 1]>>

\* f"proof_{student_id}_{int(datetime.utcnow().timestamp())}_{secure_filename(file.filename)}"
StoredName(student_id, ts, filename) ==
  <<"p", "r", "o", "o", "f", "_">> \o Decimal(student_id) \o <<"_">>
    \o Decimal(ts) \o <<"_">> \o secure_filename(filename)

\* the column proof_path left NULL (a stored name is never empty)
NoProof == <<>>

\* the names a browser sends with the proof part of the form
FileNames ==
  {<<"a", ".", "p", "n", "g">>, <<"a", ".", "P", "N", "G">>, <<" ", "a", ".", "p", "n", "g">>,
   <<"a", ".", "e", "x", "e">>, <<"a">>, <<>>}

\* ------------------------------------------------------------- the schema
\* the store right after init_db: empty tables and the seeded admin
EmptyStore ==
  [users |-> (1 :> [username |-> "admin", role |-> "admin"]),
   students |-> <<>>,
   rooms |-> <<>>,
   allocations |-> <<>>,
   payments |-> <<>>,
   issues |-> <<>>,
   seq |-> [users |-> 1, students |-> 0, rooms |-> 0, allocations |-> 0,
            payments |-> 0, issues |-> 0]]

\* the store after create_room('A1', cap) and n times create_student()
PopulatedStore(cap, n) ==
  [EmptyStore EXCEPT
     !.rooms = (1 :> [number |-> "A1", capacity |-> cap, occupied |-> 0]),
     !.students = [x \in 1..n |-> [user_id |-> NULL, email |-> ""]],
     !.seq.rooms = 1,
     !.seq.students = n]

\* f without the keys in D
Drop(f, D) == [k \in (DOMAIN f) \ D |-> f[k]]

\* INTEGER PRIMARY KEY AUTOINCREMENT: the next id of a table, never reused
NextId(s, table) == s.seq[table] + 1

\* a schema without the CHECK constraint
CapacityUnchecked(cap) == TRUE

\* rows ever inserted into the store s, the seeded admin aside
TotalRows(s) ==
  s.seq.rooms + s.seq.students + s.seq.allocations + s.seq.payments + s.seq.issues
    + (s.seq.users - 1)

\* CHECK (capacity > 0)
CapacityCheck(cap) == cap > 0

\* FOREIGN KEY ... ON DELETE CASCADE, allocations.student_id
CascadeAllocationsOfStudent(s, sid) ==
  Drop(s.allocations, {a \in DOMAIN s.allocations : s.allocations[a].student_id = sid})

\* the room foreign key not enforced: allocations of a deleted room stay
KeepAllocationsOfRoom(s, rid) == s.allocations

\* FOREIGN KEY ... ON DELETE CASCADE, allocations.room_id
CascadeAllocationsOfRoom(s, rid) ==
  Drop(s.allocations, {a \in DOMAIN s.allocations : s.allocations[a].room_id = rid})

\* a cascade that does not look at student_id: every payment goes
CascadePaymentsOfEveryStudent(s, sid) == Drop(s.payments, DOMAIN s.payments)

\* the payments foreign key not enforced: payments of a deleted student stay
KeepPaymentsOfStudent(s, sid) == s.payments

\* FOREIGN KEY ... ON DELETE CASCADE, payments.student_id
CascadePaymentsOfStudent(s, sid) ==
  Drop(s.payments, {p \in DOMAIN s.payments : s.payments[p].student_id = sid})

\* FOREIGN KEY ... ON DELETE SET NULL, issues.student_id
SetNullIssuesOfStudent(s, sid) ==
  [i \in DOMAIN s.issues |->
     IF s.issues[i].student_id = sid
       THEN [s.issues[i] EXCEPT !.student_id = NULL]
       ELSE s.issues[i]]

\* ----------------------------------------------------------- statements
\* Each statement returns [ok, store]: ok = FALSE is sqlite3.IntegrityError,
\* and the failed statement changes nothing.
Fail(s) == [ok |-> FALSE, store |-> s]
Done(s) == [ok |-> TRUE, store |-> s]

\* INSERT INTO users (username,password_hash,role,created_at)
InsertUser(s, username, role) ==
  IF \E u \in DOMAIN s.users : s.users[u].username = username
    THEN Fail(s)
    ELSE Done([s EXCEPT !.users = s.users @@
                          (NextId(s, "users") :> [username |-> username, role |-> role]),
                        !.seq.users = NextId(s, "users")])

\* INSERT INTO students (user_id,name,email,...)
InsertStudent(s, user_id, email) ==
  IF \/ email # "" /\ \E x \in DOMAIN s.students : s.students[x].email = email
     \/ user_id # NULL /\ \E x \in DOMAIN s.students : s.students[x].user_id = user_id
     \/ user_id # NULL /\ user_id \notin DOMAIN s.users
    THEN Fail(s)
    ELSE Done([s EXCEPT !.students = s.students @@
                          (NextId(s, "students") :> [user_id |-> user_id, email |-> email]),
                        !.seq.students = NextId(s, "students")])

\* INSERT INTO rooms (number,type,capacity,occupied) VALUES (?,?,?,0)
InsertRoom(s, number, cap) ==
  IF \/ \E r \in DOMAIN s.rooms : s.rooms[r].number = number
     \/ ~CapacityCheck(cap)
    THEN Fail(s)
    ELSE Done([s EXCEPT !.rooms = s.rooms @@
                          (NextId(s, "rooms") :>
                             [number |-> number, capacity |-> cap, occupied |-> 0]),
                        !.seq.rooms = NextId(s, "rooms")])

\* DELETE FROM rooms WHERE id=?
DeleteRoomRow(s, rid) ==
  [s EXCEPT !.rooms = Drop(s.rooms, {rid}),
            !.allocations = CascadeAllocationsOfRoom(s, rid)]

\* DELETE FROM students WHERE id=?
DeleteStudentRow(s, sid) ==
  [s EXCEPT !.students = Drop(s.students, {sid}),
            !.allocations = CascadeAllocationsOfStudent(s, sid),
            !.payments = CascadePaymentsOfStudent(s, sid),
            !.issues = SetNullIssuesOfStudent(s, sid)]

\* INSERT INTO allocations (student_id,room_id,start_date,status,created_at)
InsertAllocation(s, sid, rid) ==
  IF sid \notin DOMAIN s.students \/ rid \notin DOMAIN s.rooms
    THEN Fail(s)
    ELSE Done([s EXCEPT !.allocations = s.allocations @@
                          (NextId(s, "allocations") :>
                             [student_id |-> sid, room_id |-> rid,
                              status |-> "active", end_date |-> ""]),
                        !.seq.allocations = NextId(s, "allocations")])

\* UPDATE rooms SET occupied = occupied + 1 WHERE id=?
IncOccupied(s, rid) ==
  IF rid \in DOMAIN s.rooms
    THEN [s EXCEPT !.rooms[rid].occupied = @ + 1]
    ELSE s

\* release without the decrement
KeepOccupied(s, rid) == s

\* UPDATE rooms SET occupied = CASE WHEN occupied>0 THEN occupied-1 ELSE 0 END WHERE id=?
DecOccupied(s, rid) ==
  IF rid \in DOMAIN s.rooms
    THEN [s EXCEPT !.rooms[rid].occupied = IF @ > 0 THEN @ - 1 ELSE 0]
    ELSE s

\* release that sets the status but not the end date
MarkReleasedNoEndDate(s, aid) ==
  IF aid \in DOMAIN s.allocations
    THEN [s EXCEPT !.allocations[aid].status = "released"]
    ELSE s

\* UPDATE allocations SET status='released', end_date=? WHERE id=?
MarkReleased(s, aid) ==
  IF aid \in DOMAIN s.allocations
    THEN [s EXCEPT !.allocations[aid].status = "released",
                   !.allocations[aid].end_date = Today]
    ELSE s

\* INSERT INTO payments (student_id, amount, ..., status, created_at)
InsertPayment(s, sid, status, proof_path) ==
  IF sid \notin DOMAIN s.students
    THEN Fail(s)
    ELSE Done([s EXCEPT !.payments = s.payments @@
                          (NextId(s, "payments") :>
                             [student_id |-> sid, status |-> status,
                              proof_path |-> proof_path]),
                        !.seq.payments = NextId(s, "payments")])

\* INSERT INTO issues (student_id,title,detail,status,created_at)
InsertIssue(s, sid) ==
  IF sid # NULL /\ sid \notin DOMAIN s.students
    THEN Fail(s)
    ELSE Done([s EXCEPT !.issues = s.issues @@
                          (NextId(s, "issues") :> [student_id |-> sid, status |-> "open"]),
                        !.seq.issues = NextId(s, "issues")])

\* the capacity test off by one
RoomIsOverfull(room) == room.occupied > room.capacity

\* if room['occupied'] >= room['capacity']
RoomIsFull(room) == room.occupied >= room.capacity

\* release that tests only that the allocation exists
IsPresent(s, aid) == aid \in DOMAIN s.allocations

\* if alloc and alloc['status'] == 'active'
IsActive(s, aid) == aid \in DOMAIN s.allocations /\ s.allocations[aid].status = "active"

\* number of allocation rows of a room with status 'active'
ActiveCount(s, rid) ==
  Cardinality({a \in DOMAIN s.allocations :
                 s.allocations[a].room_id = rid /\ s.allocations[a].status = "active"})


\* ------------------------------------------- handlers, one request at a time
\* A handler's outcome: the flashed message and the store the request leaves
\* committed. An unhandled exception ends the request with a 500 and close_db
\* closes the connection, which discards whatever was not committed.
Outcome(flash, s) == [flash |-> flash, store |-> s]
ServerError == "InternalServerError"

\* a connection that commits its pending statements when it is closed
CommitOnClose(committed, s) == s

\* close_db after a request that did not reach db.commit(): the pending
\* statements of the working store s are discarded, committed stays
CloseUncommitted(committed, s) == committed

\* rooms(), POST without _method=DELETE
CreateRoomTxn(s, number, cap) ==
  LET r == InsertRoom(s, number, cap) IN
    IF r.ok THEN Outcome("Room added", r.store)
            ELSE Outcome("Room number already exists", CloseUncommitted(s, r.store))

\* rooms(), POST with _method=DELETE
DeleteRoomTxn(s, rid) == Outcome("Room deleted", DeleteRoomRow(s, rid))

\* students(), POST without _method=DELETE
CreateStudentTxn(s, email) ==
  LET r == InsertStudent(s, NULL, email) IN
    IF r.ok THEN Outcome("Student added", r.store)
            ELSE Outcome("Email already exists", CloseUncommitted(s, r.store))

\* students(), POST with _method=DELETE
DeleteStudentTxn(s, sid) == Outcome("Student removed", DeleteStudentRow(s, sid))

\* allocations(), action == 'allocate'
AllocateTxn(s, sid, rid) ==
  IF rid \notin DOMAIN s.rooms
    THEN Outcome(ServerError, s)           \* room is None: TypeError
    ELSE IF RoomIsFull(s.rooms[rid])
      THEN Outcome("Room is full", s)
      ELSE LET r == InsertAllocation(s, sid, rid) IN
        IF ~r.ok
          THEN Outcome(ServerError, CloseUncommitted(s, r.store))  \* IntegrityError
          ELSE Outcome("Allocated successfully", IncOccupied(r.store, rid))

\* allocations(), action == 'release'
ReleaseTxn(s, aid) ==
  IF IsActive(s, aid)
    THEN Outcome("Released successfully",
                 DecOccupied(MarkReleased(s, aid), s.allocations[aid].room_id))
    ELSE Outcome("", s)

\* register(), POST: the user insert and the student insert share one
\* transaction; IntegrityError from either is caught and nothing is committed
RegisterTxn(s, username, email) ==
  LET u == InsertUser(s, username, "student") IN
    IF ~u.ok
      THEN Outcome("Username or email already exists.", CloseUncommitted(s, u.store))
      ELSE LET st == InsertStudent(u.store, u.store.seq.users, email) IN
        IF ~st.ok
          THEN Outcome("Username or email already exists.", CloseUncommitted(s, st.store))
          ELSE Outcome("Registration successful. Please login.", st.store)

\* users(), POST
CreateUserTxn(s, username, role) ==
  LET u == InsertUser(s, username, role) IN
    IF u.ok THEN Outcome("User created", u.store)
            ELSE Outcome("Username already exists", CloseUncommitted(s, u.store))

\* payments(), POST without a proof part
RecordPaymentTxn(s, sid, status) ==
  LET r == InsertPayment(s, sid, status, NoProof) IN
    IF r.ok THEN Outcome("Payment recorded", r.store)
            ELSE Outcome(ServerError, CloseUncommitted(s, r.store))

\* issues(), POST by an admin without action=close
LogIssueTxn(s, sid) ==
  LET r == InsertIssue(s, sid) IN
    IF r.ok THEN Outcome("Issue logged", r.store)
            ELSE Outcome(ServerError, CloseUncommitted(s, r.store))

\* the response of the last request: the handler, its form fields, the
\* flashed message, and the occupied value allocate read from the room row
Resp(op, flash, sid, rid, aid, occ) ==
  [op |-> op, flash |-> flash, student_id |-> sid, room_id |-> rid,
   alloc_id |-> aid, occupied |-> occ]

Idle == [c \in Conns |-> [pc |-> "idle", op |-> "", student_id |-> NULL, room_id |-> NULL,
                          alloc_id |-> NULL, occupied |-> 0, capacity |-> 0,
                          status |-> ""]]

Init ==
  /\ db = EmptyStore
  /\ Fresh
  /\ resp = Resp("", "", NULL, NULL, NULL, 0)
  /\ conn = Idle
  /\ writer = {}
  /\ tx = EmptyStore

Sequential == UNCHANGED <<conn, writer, tx>> /\ Untouched

CreateRoom ==
  \E number \in Numbers, cap \in -1..MaxCapacity :
    /\ NextId(db, "rooms") <= MaxRooms
    /\ db' = CreateRoomTxn(db, number, cap).store
    /\ resp' = Resp("create_room", CreateRoomTxn(db, number, cap).flash, NULL, NULL, NULL, 0)
    /\ Sequential

DeleteRoom ==
  \E rid \in 1..MaxRooms :
    /\ db' = DeleteRoomTxn(db, rid).store
    /\ resp' = Resp("delete_room", DeleteRoomTxn(db, rid).flash, NULL, rid, NULL, 0)
    /\ Sequential

CreateStudentOf(emails) ==
  \E email \in emails :
    /\ NextId(db, "students") <= MaxStudents
    /\ db' = CreateStudentTxn(db, email).store
    /\ resp' = Resp("create_student", CreateStudentTxn(db, email).flash, NULL, NULL, NULL, 0)
    /\ Sequential

\* the admin's student form with the email left empty
CreateStudent == CreateStudentOf({""})

\* the admin's student form with or without an email
CreateStudentEmail == CreateStudentOf(Emails \cup {""})

DeleteStudent ==
  \E sid \in 1..MaxStudents :
    /\ db' = DeleteStudentTxn(db, sid).store
    /\ resp' = Resp("delete_student", DeleteStudentTxn(db, sid).flash, sid, NULL, NULL, 0)
    /\ Sequential

Allocate ==
  \E sid \in 1..MaxStudents, rid \in 1..MaxRooms :
    /\ NextId(db, "allocations") <= MaxAllocs
    /\ db' = AllocateTxn(db, sid, rid).store
    /\ resp' = Resp("allocate", AllocateTxn(db, sid, rid).flash, sid, rid, NULL,
                    IF rid \in DOMAIN db.rooms THEN db.rooms[rid].occupied ELSE 0)
    /\ Sequential

Release ==
  \E aid \in 1..MaxAllocs :
    /\ db' = ReleaseTxn(db, aid).store
    /\ resp' = Resp("release", ReleaseTxn(db, aid).flash, NULL,
                    IF aid \in DOMAIN db.allocations THEN db.allocations[aid].room_id ELSE NULL,
                    aid, 0)
    /\ Sequential

RecordPayment ==
  \E sid \in 1..MaxStudents, status \in {"Pending"} :
    /\ NextId(db, "payments") <= MaxPayments
    /\ db' = RecordPaymentTxn(db, sid, status).store
    /\ resp' = Resp("record_payment", RecordPaymentTxn(db, sid, status).flash, sid, NULL, NULL, 0)
    /\ Sequential

LogIssue ==
  \E sid \in 0..MaxStudents :
    /\ NextId(db, "issues") <= MaxIssues
    /\ db' = LogIssueTxn(db, sid).store
    /\ resp' = Resp("log_issue", LogIssueTxn(db, sid).flash, sid, NULL, NULL, 0)
    /\ Sequential

\* the runs explored insert at most n rows in all
WithinRows(n) == TotalRows(db') <= n

\* rooms, students and allocations, one request at a time
Next ==
  \/ CreateRoom /\ WithinRows(MaxRows)
  \/ DeleteRoom
  \/ CreateStudent /\ WithinRows(MaxRows)
  \/ DeleteStudent
  \/ Allocate /\ WithinRows(MaxRows)
  \/ Release

Spec == Init /\ [][Next]_vars

\* allocations together with the payment ledger and the issue tracker, from a
\* store that holds one room and the students
LedgerInit ==
  /\ db = PopulatedStore(MaxCapacity, MaxStudents)
  /\ Fresh
  /\ resp = Resp("", "", NULL, NULL, NULL, 0)
  /\ conn = Idle
  /\ writer = {}
  /\ tx = EmptyStore

LedgerRows == TotalRows(PopulatedStore(MaxCapacity, MaxStudents)) + MaxRows - 1

LedgerNext ==
  \/ DeleteStudent
  \/ Allocate /\ WithinRows(LedgerRows)
  \/ Release
  \/ RecordPayment /\ WithinRows(LedgerRows)
  \/ LogIssue /\ WithinRows(LedgerRows)

LedgerSpec == LedgerInit /\ [][LedgerNext]_vars


\* ------------------------------------------------------------ registration
RegResp(flash, username, email) ==
  [op |-> "register", flash |-> flash, username |-> username, email |-> email]

Register ==
  \E username \in Usernames, email \in Emails \cup {""} :
    /\ NextId(db, "users") <= MaxUsers
    /\ NextId(db, "students") <= MaxStudents
    /\ db' = RegisterTxn(db, username, email).store
    /\ resp' = RegResp(RegisterTxn(db, username, email).flash, username, email)
    /\ Sequential

CreateUser ==
  \E username \in Usernames, role \in {"admin", "student"} :
    /\ NextId(db, "users") <= MaxUsers
    /\ db' = CreateUserTxn(db, username, role).store
    /\ resp' = Resp("create_user", CreateUserTxn(db, username, role).flash, NULL, NULL, NULL, 0)
    /\ Sequential

RegNext ==
  \/ Register /\ WithinRows(MaxRows)
  \/ CreateUser /\ WithinRows(MaxRows)
  \/ CreateStudentEmail /\ WithinRows(MaxRows)
  \/ DeleteStudent

RegSpec == Init /\ [][RegNext]_vars

\* C5: a registration whose username is taken, or whose email is taken (the
\* student insert fails after the user insert succeeded), ends with no new
\* user row and no new student row in the committed store.
C5_FailedRegistrationLeavesNothing ==
  [][(/\ resp'.op = "register"
      /\ \/ \E u \in DOMAIN db.users : db.users[u].username = resp'.username
         \/ /\ resp'.email # ""
            /\ \E x \in DOMAIN db.students : db.students[x].email = resp'.email)
     => (/\ resp'.flash = "Username or email already exists."
         /\ db'.users = db.users
         /\ db'.students = db.students)]_vars

\* a registration with a fresh username and a taken email was just refused
C5_Witness ==
  /\ resp.op = "register" /\ resp.flash = "Username or email already exists."
  /\ \A u \in DOMAIN db.users : db.users[u].username # resp.username
  /\ \E x \in DOMAIN db.students : db.students[x].email = resp.email

\* ------------------------------------------------------ rooms and allocations
Rooms == DOMAIN db.rooms
Allocs == DOMAIN db.allocations

\* C1: every room's occupied counter equals the number of its allocation rows
\* whose status is 'active'.
C1_OccupiedEqualsActive ==
  \A r \in Rooms : db.rooms[r].occupied = ActiveCount(db, r)

\* C2: with requests processed one at a time, every room has
\* 0 <= occupied <= capacity, whatever capacity create_room was given.
C2_OccupiedWithinCapacity ==
  \A r \in Rooms : 0 <= db.rooms[r].occupied /\ db.rooms[r].occupied <= db.rooms[r].capacity

\* a rejected create_room (capacity <= 0) was the last request, and some room is
\* filled to its capacity of more than one
C2_Witness ==
  /\ resp.op = "create_room" /\ resp.flash = "Room number already exists"
  /\ \E r \in Rooms : db.rooms[r].capacity > 1 /\ db.rooms[r].occupied = db.rooms[r].capacity

\* C3: an allocate for a room with occupied >= capacity flashes 'Room is full',
\* creates no allocation row and changes no row of the store.
C3_FullRoomRejected ==
  [][(/\ resp'.op = "allocate"
      /\ resp'.room_id \in Rooms
      /\ db.rooms[resp'.room_id].occupied >= db.rooms[resp'.room_id].capacity)
     => (resp'.flash = "Room is full" /\ db' = db)]_vars

\* the last request was an allocate into a full room
C3_Witness ==
  /\ resp.op = "allocate" /\ resp.flash = "Room is full"
  /\ resp.room_id \in Rooms
  /\ db.rooms[resp.room_id].occupied >= db.rooms[resp.room_id].capacity

\* C8: release of an active allocation sets status 'released', end date today
\* and decrements its room's occupied by one, not below zero; release of a
\* released or missing allocation changes no row.
C8_Release ==
  [][resp'.op = "release" =>
       LET a == resp'.alloc_id IN
         IF a \in Allocs /\ db.allocations[a].status = "active"
           THEN LET r == db.allocations[a].room_id IN
                  /\ db'.allocations[a].status = "released"
                  /\ db'.allocations[a].end_date = Today
                  /\ db'.rooms[r].occupied = db.rooms[r].occupied - 1
                  /\ db'.rooms[r].occupied >= 0
           ELSE db' = db]_vars

\* an allocation was released and then released a second time
C8_Witness ==
  /\ resp.op = "release" /\ resp.flash = ""
  /\ resp.alloc_id \in Allocs
  /\ db.allocations[resp.alloc_id].status = "released"

\* C9: a successful allocate into room r immediately followed by the release of
\* the allocation just created leaves r.occupied at the value allocate read,
\* and that allocation is 'released' with an end date.
C9_AllocateThenRelease ==
  [][(/\ resp.op = "allocate" /\ resp.flash = "Allocated successfully"
      /\ resp'.op = "release" /\ resp'.alloc_id = db.seq.allocations)
     => (/\ db'.rooms[resp.room_id].occupied = resp.occupied
         /\ db'.allocations[resp'.alloc_id].status = "released"
         /\ db'.allocations[resp'.alloc_id].end_date # "")]_vars

\* the newest allocation has just been released, in a room that others occupy
C9_Witness ==
  /\ resp.op = "release" /\ resp.flash = "Released successfully"
  /\ resp.alloc_id = db.seq.allocations
  /\ resp.room_id \in Rooms
  /\ db.rooms[resp.room_id].occupied > 0

\* a room whose every slot is held by an active allocation
FullyHeld(s, r) ==
  s.rooms[r].occupied = s.rooms[r].capacity /\ ActiveCount(s, r) = s.rooms[r].capacity

\* C10: in a room whose slots are all held by active allocations an allocate
\* fails; releasing one of them leaves occupied = capacity - 1, and the next
\* allocate of an existing student into that room succeeds.
C10_FullReleaseAllocate ==
  [][/\ (resp'.op = "allocate" /\ resp'.room_id \in Rooms /\ FullyHeld(db, resp'.room_id))
        => (resp'.flash = "Room is full" /\ db' = db)
     /\ (/\ resp'.op = "release" /\ resp'.flash = "Released successfully"
         /\ FullyHeld(db, resp'.room_id))
        => db'.rooms[resp'.room_id].occupied = db.rooms[resp'.room_id].capacity - 1
     /\ (/\ resp.op = "release" /\ resp.flash = "Released successfully"
         /\ resp.room_id \in Rooms
         /\ db.rooms[resp.room_id].occupied = db.rooms[resp.room_id].capacity - 1
         /\ resp'.op = "allocate" /\ resp'.room_id = resp.room_id
         /\ resp'.student_id \in DOMAIN db.students)
        => (/\ resp'.flash = "Allocated successfully"
            /\ db'.rooms[resp.room_id].occupied = db.rooms[resp.room_id].capacity)]_vars

\* the end of the A1 scenario: a room of capacity 2 holds three allocation
\* rows, one released and two active, the last allocate having succeeded
C10_Witness ==
  /\ resp.op = "allocate" /\ resp.flash = "Allocated successfully"
  /\ resp.room_id \in Rooms
  /\ db.rooms[resp.room_id].capacity = 2
  /\ db.rooms[resp.room_id].occupied = 2
  /\ ActiveCount(db, resp.room_id) = 2
  /\ \E a \in Allocs : /\ db.allocations[a].room_id = resp.room_id
                       /\ db.allocations[a].status = "released"
                       /\ a < db.seq.allocations

\* ------------------------------------------------------- deleting a student
\* C6: delete_student(s) removes the allocations and payments of s, nulls
\* student_id on the issues of s, and leaves rooms, users, the other students
\* and the other students' allocations, payments and issues unchanged.
C6_DeleteStudentFrame ==
  [][resp'.op = "delete_student" =>
       LET s == resp'.student_id
           keptA == {a \in Allocs : db.allocations[a].student_id # s}
           keptP == {p \in DOMAIN db.payments : db.payments[p].student_id # s}
       IN
         /\ DOMAIN db'.allocations = keptA
         /\ \A a \in keptA : db'.allocations[a] = db.allocations[a]
         /\ DOMAIN db'.payments = keptP
         /\ \A p \in keptP : db'.payments[p] = db.payments[p]
         /\ DOMAIN db'.issues = DOMAIN db.issues
         /\ \A i \in DOMAIN db.issues :
              /\ db'.issues[i].status = db.issues[i].status
              /\ db'.issues[i].student_id =
                   IF db.issues[i].student_id = s THEN NULL ELSE db.issues[i].student_id
         /\ db'.rooms = db.rooms
         /\ db'.users = db.users
         /\ DOMAIN db'.students = (DOMAIN db.students) \ {s}
         /\ \A x \in DOMAIN db'.students : db'.students[x] = db.students[x]]_vars

\* a student who had an allocation, a payment and an issue was just deleted,
\* while another student keeps an allocation
C6_Witness ==
  /\ resp.op = "delete_student"
  /\ resp.student_id <= db.seq.students /\ resp.student_id \notin DOMAIN db.students
  /\ db.seq.payments > 0 /\ DOMAIN db.payments = {}
  /\ \E i \in DOMAIN db.issues : db.issues[i].student_id = NULL
  /\ Cardinality(Allocs) < db.seq.allocations
  /\ \E a \in Allocs : db.allocations[a].student_id \in DOMAIN db.students


\* --------------------------------------- allocate and release, concurrently
\* Each request runs on its own connection (get_db) against the one database
\* file. A SELECT reads the committed store. The first INSERT/UPDATE of a
\* request opens the transaction and takes SQLite's write lock, which one
\* connection holds at a time (the others wait); tx is the lock holder's
\* working store and db.commit() publishes it. A request that ends before its
\* commit (an exception, a crash, a lock timeout) is closed by close_db and its
\* pending statements are discarded.

\* the stores a concurrent run starts from: one room, some students, nothing
\* allocated yet
ConcStores == {PopulatedStore(cap, n) : cap \in 1..MaxCapacity, n \in 1..MaxStudents}

ConcInit ==
  /\ db \in ConcStores
  /\ Fresh
  /\ tx = db
  /\ resp = Resp("", "", NULL, NULL, NULL, 0)
  /\ conn = Idle
  /\ writer = {}

Local(pc, op, sid, rid, aid, room) ==
  [pc |-> pc, op |-> op, student_id |-> sid, room_id |-> rid, alloc_id |-> aid,
   occupied |-> room.occupied, capacity |-> room.capacity, status |-> ""]

NoRoom == [occupied |-> 0, capacity |-> 0]

\* room = db.execute('SELECT * FROM rooms WHERE id=?') and the capacity test
BeginAllocate(c) ==
  \E sid \in 1..MaxStudents, rid \in 1..MaxRooms :
    /\ conn[c].pc = "idle"
    /\ Untouched
    /\ NextId(db, "allocations") <= MaxAllocs
    /\ TotalRows(db) < MaxRows
    /\ UNCHANGED <<db, writer, tx>>
    /\ IF rid \notin DOMAIN db.rooms
         THEN /\ resp' = Resp("allocate", ServerError, sid, rid, NULL, 0)
              /\ UNCHANGED conn
         ELSE IF RoomIsFull(db.rooms[rid])
           THEN /\ resp' = Resp("allocate", "Room is full", sid, rid, NULL,
                                db.rooms[rid].occupied)
                /\ UNCHANGED conn
           ELSE /\ conn' = [conn EXCEPT ![c] =
                              Local("insert", "allocate", sid, rid, NULL, db.rooms[rid])]
                /\ UNCHANGED resp

\* db.execute('INSERT INTO allocations ...'): opens the transaction
AllocInsert(c) ==
  /\ conn[c].pc = "insert"
  /\ Untouched
  /\ writer = {}
  /\ NextId(db, "allocations") <= MaxAllocs
  /\ TotalRows(db) < MaxRows
  /\ LET r == InsertAllocation(db, conn[c].student_id, conn[c].room_id) IN
       IF r.ok
         THEN /\ tx' = r.store
              /\ writer' = {c}
              /\ conn' = [conn EXCEPT ![c].pc = "update"]
              /\ UNCHANGED <<db, resp>>
         ELSE /\ conn' = [conn EXCEPT ![c] = Idle[c]]
              /\ resp' = Resp("allocate", ServerError, conn[c].student_id,
                              conn[c].room_id, NULL, conn[c].occupied)
              /\ UNCHANGED <<db, writer, tx>>

\* db.execute('UPDATE rooms SET occupied = occupied + 1 ...')
AllocUpdate(c) ==
  /\ conn[c].pc = "update"
  /\ Untouched
  /\ tx' = IncOccupied(tx, conn[c].room_id)
  /\ conn' = [conn EXCEPT ![c].pc = "commit"]
  /\ UNCHANGED <<db, writer, resp>>

\* alloc = db.execute('SELECT * FROM allocations WHERE id=?') and the status test
BeginRelease(c) ==
  \E aid \in 1..MaxAllocs :
    /\ conn[c].pc = "idle"
    /\ Untouched
    /\ UNCHANGED <<db, writer, tx>>
    /\ IF IsActive(db, aid)
         THEN /\ conn' = [conn EXCEPT ![c] =
                            Local("mark", "release", NULL, db.allocations[aid].room_id,
                                  aid, NoRoom)]
              /\ UNCHANGED resp
         ELSE /\ resp' = Resp("release", "", NULL, NULL, aid, 0)
              /\ UNCHANGED conn

\* db.execute("UPDATE allocations SET status='released', end_date=? ..."):
\* opens the transaction
ReleaseMark(c) ==
  /\ conn[c].pc = "mark"
  /\ Untouched
  /\ writer = {}
  /\ tx' = MarkReleased(db, conn[c].alloc_id)
  /\ writer' = {c}
  /\ conn' = [conn EXCEPT ![c].pc = "decrement"]
  /\ UNCHANGED <<db, resp>>

\* db.execute('UPDATE rooms SET occupied = CASE WHEN occupied>0 ...')
ReleaseDecrement(c) ==
  /\ conn[c].pc = "decrement"
  /\ Untouched
  /\ tx' = DecOccupied(tx, conn[c].room_id)
  /\ conn' = [conn EXCEPT ![c].pc = "commit"]
  /\ UNCHANGED <<db, writer, resp>>

\* db.commit() and the flash that follows it
Commit(c) ==
  /\ conn[c].pc = "commit"
  /\ Untouched
  /\ db' = tx
  /\ writer' = {}
  /\ conn' = [conn EXCEPT ![c] = Idle[c]]
  /\ resp' = Resp(conn[c].op,
                  IF conn[c].op = "allocate" THEN "Allocated successfully"
                                             ELSE "Released successfully",
                  conn[c].student_id, conn[c].room_id, conn[c].alloc_id, conn[c].occupied)
  /\ UNCHANGED tx

\* the request ends before its commit; close_db closes the connection
Abort(c) ==
  /\ conn[c].pc # "idle"
  /\ Untouched
  /\ db' = CloseUncommitted(db, IF c \in writer THEN tx ELSE db)
  /\ writer' = writer \ {c}
  /\ conn' = [conn EXCEPT ![c] = Idle[c]]
  /\ resp' = Resp(conn[c].op, ServerError, conn[c].student_id, conn[c].room_id,
                  conn[c].alloc_id, conn[c].occupied)
  /\ UNCHANGED tx

ConcNext ==
  \E c \in Conns :
    \/ BeginAllocate(c)
    \/ AllocInsert(c)
    \/ AllocUpdate(c)
    \/ BeginRelease(c)
    \/ ReleaseMark(c)
    \/ ReleaseDecrement(c)
    \/ Commit(c)
    \/ Abort(c)

ConcSpec == ConcInit /\ [][ConcNext]_vars

\* C4: concurrent allocate requests for one room never leave it with
\* occupied > capacity nor with more active allocations than capacity.
C4_CapacityUnderConcurrency ==
  \A r \in Rooms : /\ db.rooms[r].occupied <= db.rooms[r].capacity
                   /\ ActiveCount(db, r) <= db.rooms[r].capacity

\* the allocation rows of room r that a step adds to the committed store
NewRows(r) ==
  {a \in (DOMAIN db'.allocations) \ Allocs : db'.allocations[a].room_id = r}

\* the allocation rows of room r that a step turns from active to released
ReleasedRows(r) ==
  {a \in Allocs : /\ db.allocations[a].room_id = r
                  /\ db.allocations[a].status = "active"
                  /\ db'.allocations[a].status = "released"}

\* C7: in the committed store an allocation row appears exactly when its
\* room's occupied rises by one, and a release's status update shows exactly
\* together with its decrement (floored at zero), also when requests are
\* aborted between the two statements.
C7_PairsCommitTogether ==
  [][\A r \in Rooms :
       LET occ == db.rooms[r].occupied
           occ2 == db'.rooms[r].occupied
       IN /\ NewRows(r) # {} => (Cardinality(NewRows(r)) = 1 /\ occ2 = occ + 1)
          /\ occ2 > occ => (Cardinality(NewRows(r)) = 1 /\ occ2 = occ + 1)
          /\ \A a \in NewRows(r) : db'.allocations[a].status = "active"
          /\ ReleasedRows(r) # {} => occ2 = (IF occ > 0 THEN occ - 1 ELSE 0)
          /\ occ2 < occ =>
               /\ occ2 = occ - 1
               /\ \E a \in Allocs : /\ db'.allocations[a].room_id = r
                                    /\ db'.allocations[a].status = "released"
                                    /\ db'.allocations[a].end_date = Today]_vars

\* a request was aborted after its insert and before its increment: the
\* discarded working store holds the allocation row and the old counter, the
\* committed store holds neither
C7_Witness ==
  /\ resp.op = "allocate" /\ resp.flash = ServerError
  /\ writer = {}
  /\ tx.seq.allocations = db.seq.allocations + 1
  /\ tx.rooms = db.rooms
  /\ \E a \in Allocs : db.allocations[a].status = "released"


\* ------------------------------------------------ sessions and the web layer
\* A request comes from a browser c with the session cookie session[c]. What
\* it leaves behind: the flashed message, the redirect (or the page rendered),
\* the committed store and the upload folder.
Reply(flash, redirect, s, fs) ==
  [flash |-> flash, redirect |-> redirect, store |-> s, files |-> fs]

\* request.path: the route, and the file name for /uploads/<fname>
Path(route) == [route |-> route, arg |-> <<>>]
UploadPath(fname) == [route |-> "/uploads/", arg |-> fname]
NoPath == Path("")

\* redirect(url_for(endpoint)); Page is a rendered page, no redirect
To(endpoint) == [to |-> endpoint, next |-> NoPath]
Page == To("")

\* redirect(url_for('login', next=request.path))
ToLogin(path) == [to |-> "login", next |-> path]

\* redirect(next_url)
ToUrl(next) == [to |-> "url", next |-> next]

\* a decorator that lets every request through
login_not_required(sess, path, s, fs, reply) == reply

\* @login_required
login_required(sess, path, s, fs, reply) ==
  IF sess.user_id = NULL THEN Reply("", ToLogin(path), s, fs) ELSE reply

\* a decorator that asks for a login and for no role
admin_not_required(sess, path, s, fs, reply) ==
  IF sess.user_id = NULL THEN Reply("", ToLogin(path), s, fs) ELSE reply

\* @admin_required
admin_required(sess, path, s, fs, reply) ==
  IF sess.user_id = NULL THEN Reply("", ToLogin(path), s, fs)
  ELSE IF sess.role # "admin" THEN Reply("Admins only.", To("portal"), s, fs)
  ELSE reply

\* request.form.get(name, default): a form field is <<>> when the form does
\* not carry it and <<v>> when it carries the value v
Field(f, default) == IF f = <<>> THEN default ELSE f[1]

\* a lookup that takes a students row whoever it is linked to
any_student_row(s, sess) ==
  IF DOMAIN s.students = {} THEN NULL ELSE CHOOSE x \in DOMAIN s.students : TRUE

\* current_student_row(): the id of the students row linked to the session's
\* user, NULL when there is none
current_student_row(s, sess) ==
  IF sess.role # "student" \/ sess.user_id = NULL THEN NULL
  ELSE IF \E x \in DOMAIN s.students : s.students[x].user_id = sess.user_id
    THEN CHOOSE x \in DOMAIN s.students : s.students[x].user_id = sess.user_id
    ELSE NULL

\* the proof block of payments() and portal_payments(): proof is <<>> when the
\* request has no 'proof' part and <<filename>> otherwise
SaveProof(fs, student_id, ts, proof) ==
  IF proof # <<>> /\ proof[1] # <<>> /\ allowed_file(proof[1])
    THEN [path |-> StoredName(student_id, ts, proof[1]),
          files |-> fs \cup {StoredName(student_id, ts, proof[1])}]
    ELSE [path |-> NoProof, files |-> fs]

\* a portal that takes the status from the submitted form
PortalStatusFromForm(status) == Field(status, "Pending")

\* portal_payments(): the status written is the literal 'Pending'
PortalStatus(status) == "Pending"

\* payments(), POST
PaymentsPost(s, fs, ts, form) ==
  LET up == SaveProof(fs, form.student_id, ts, form.proof)
      r == InsertPayment(s, form.student_id, Field(form.status, "Pending"), up.path)
  IN IF r.ok THEN Reply("Payment recorded", Page, r.store, up.files)
             ELSE Reply(ServerError, Page, CloseUncommitted(s, r.store), up.files)

\* portal_payments(), POST
PortalPaymentsPost(s, fs, ts, sess, form) ==
  IF sess.role # "student" THEN Reply("", To("dashboard"), s, fs)
  ELSE IF current_student_row(s, sess) = NULL
    THEN Reply("Profile not found.", To("portal"), s, fs)
    ELSE LET stu == current_student_row(s, sess)
             up == SaveProof(fs, stu, ts, form.proof)
             r == InsertPayment(s, stu, PortalStatus(form.status), up.path)
         IN Reply("Payment submitted. Awaiting admin review.", To("portal_payments"),
                  r.store, up.files)

\* login(), POST: matches says whether the password typed is the user's
LoginPost(s, sess, username, matches, next) ==
  IF matches /\ \E u \in DOMAIN s.users : s.users[u].username = username
    THEN LET u == CHOOSE x \in DOMAIN s.users : s.users[x].username = username IN
           [session |-> [user_id |-> u, role |-> s.users[u].role],
            flash |-> "",
            redirect |-> IF next # NoPath THEN ToUrl(next)
                         ELSE IF s.users[u].role = "admin" THEN To("dashboard")
                                                           ELSE To("portal")]
    ELSE [session |-> sess, flash |-> "Invalid credentials", redirect |-> Page]

\* the response to a browser's request: the route, the browser, the form sent,
\* the flashed message and the redirect
WebResp(op, c, form, flash, redirect) ==
  [op |-> op, client |-> c, form |-> form, flash |-> flash, redirect |-> redirect]

NoForm == [none |-> TRUE]

\* the store and the upload folder after the reply r
Served(r) == db' = r.store /\ files' = r.files

StatusFields == {<<>>, <<"Paid">>, <<"junk">>}
ProofParts == {<<>>} \cup {<<f>> : f \in FileNames}
StudentIds(s) == 1..NextId(s, "students")

LoginOf(c, usernames) ==
  \E username \in usernames, matches \in BOOLEAN, next \in {NoPath, Path("/issues")} :
    LET r == LoginPost(db, session[c], username, matches, next) IN
      /\ session' = [session EXCEPT ![c] = r.session]
      /\ resp' = WebResp("login", c, [username |-> username, next |-> next],
                         r.flash, r.redirect)
      /\ UNCHANGED <<db, files, now, conn, writer, tx>>

\* logout(): session.clear()
Logout(c) ==
  LET r == login_required(session[c], Path("/logout"), db, files,
                          Reply("", To("login"), db, files)) IN
    /\ session' = [session EXCEPT ![c] = IF session[c].user_id = NULL THEN session[c]
                                                                    ELSE LoggedOut]
    /\ resp' = WebResp("logout", c, NoForm, r.flash, r.redirect)
    /\ UNCHANGED <<db, files, now, conn, writer, tx>>

PaymentsOf(c, statuses, proofs) ==
  \E sid \in StudentIds(db), status \in statuses, proof \in proofs :
    LET form == [student_id |-> sid, status |-> status, proof |-> proof]
        r == admin_required(session[c], Path("/payments"), db, files,
                            PaymentsPost(db, files, now, form))
    IN /\ Served(r)
       /\ resp' = WebResp("payments", c, form, r.flash, r.redirect)
       /\ UNCHANGED <<session, now, conn, writer, tx>>

PortalPaymentsOf(c, statuses, proofs) ==
  \E status \in statuses, proof \in proofs :
    LET form == [status |-> status, proof |-> proof]
        r == login_required(session[c], Path("/portal/payments"), db, files,
                            PortalPaymentsPost(db, files, now, session[c], form))
    IN /\ Served(r)
       /\ resp' = WebResp("portal_payments", c, form, r.flash, r.redirect)
       /\ UNCHANGED <<session, now, conn, writer, tx>>

\* the admin form and the portal form: with any status and no proof part,
\* and with any proof part and no status
Payments(c) == PaymentsOf(c, StatusFields, {<<>>})
PaymentsProof(c) == PaymentsOf(c, {<<>>}, ProofParts)
PortalPayments(c) == PortalPaymentsOf(c, StatusFields, {<<>>})
PortalPaymentsProof(c) == PortalPaymentsOf(c, {<<>>}, ProofParts)

\* a second passes on the server's clock
Tick ==
  /\ now < MaxClock
  /\ now' = now + 1
  /\ UNCHANGED <<db, resp, session, files, conn, writer, tx>>


\* ------------------------------------------------- payments and proof files
\* the store after two students registered through register()
PortalStore == RegisterTxn(RegisterTxn(EmptyStore, "u1", "").store, "u2", "").store

\* browser b1 logged in as the admin, browser b2 as the student u1
LoggedIn ==
  [c \in Clients |->
     LoginPost(PortalStore, LoggedOut, IF c = "b1" THEN "admin" ELSE "u1", TRUE, NoPath).session]

PayInit ==
  /\ db = PortalStore
  /\ session = LoggedIn
  /\ files = {}
  /\ now = 0
  /\ resp = Resp("", "", NULL, NULL, NULL, 0)
  /\ conn = Idle
  /\ writer = {}
  /\ tx = EmptyStore

PayRows == TotalRows(PortalStore) + MaxSubmissions

\* the runs explored store at most n files
WithinFiles(n) == Cardinality(files') <= n

\* the admin submits payments through the admin form and the student u1
\* through the portal
PayNext ==
  \/ Payments("b1") /\ WithinRows(PayRows)
  \/ PaymentsProof("b1") /\ WithinRows(PayRows) /\ WithinFiles(MaxSubmissions)
  \/ PortalPayments("b2") /\ WithinRows(PayRows)
  \/ PortalPaymentsProof("b2") /\ WithinRows(PayRows) /\ WithinFiles(MaxSubmissions)

PaySpec == PayInit /\ [][PayNext]_vars

\* the payment rows a step adds
NewPayments == {p \in DOMAIN db'.payments : p \notin DOMAIN db.payments}

\* C11: every payment row created by a portal submission has status
\* 'Pending' whatever status the form carries; a payment row created by the
\* admin form has the status the admin supplied ('Pending' when the form
\* carries none).
C11_PortalPaymentPending ==
  [][/\ resp'.op = "portal_payments" =>
          \A p \in NewPayments : db'.payments[p].status = "Pending"
     /\ resp'.op = "payments" =>
          \A p \in NewPayments :
            db'.payments[p].status = IF resp'.form.status = <<>> THEN "Pending"
                                     ELSE resp'.form.status[1]]_vars

\* a portal submission whose form carried status 'Paid' was stored 'Pending',
\* next to a payment the admin recorded as 'Paid'
C11_Witness ==
  /\ resp.op = "portal_payments"
  /\ resp.form.status = <<"Paid">>
  /\ db.seq.payments = 2
  /\ db.payments[2].status = "Pending"
  /\ db.payments[1].status = "Paid"


\* the file name f ends in a dot followed by an extension of the allow-list,
\* letter case aside
HasAllowedExtension(f) ==
  \E e \in ALLOWED_EXTS :
    /\ Len(f) > Len(e)
    /\ f[Len(f) - Len(e)] = "."
    /\ Lower(SubSeq(f, Len(f) - Len(e) + 1, Len(f))) = e

\* the step is a payment submission that carries a file, sent by the
\* admin for an existing student or by a student who has a profile
SubmissionWithFile ==
  /\ resp'.op \in {"payments", "portal_payments"}
  /\ resp'.form.proof # <<>>
  /\ resp'.form.proof[1] # <<>>
  /\ \/ /\ resp'.op = "payments"
        /\ session[resp'.client].role = "admin"
        /\ resp'.form.student_id \in DOMAIN db.students
     \/ /\ resp'.op = "portal_payments"
        /\ current_student_row(db, session[resp'.client]) # NULL

\* C12: a payment submission (admin or portal) whose file has an extension
\* outside the allow-list, or none, still creates exactly one payment row,
\* with proof_path unset, and stores no file; with an allowed extension
\* (letter case aside) the one payment row has proof_path set to a file that
\* is stored.
C12_RejectedFileNotRejectedPayment ==
  [][SubmissionWithFile =>
       /\ Cardinality(NewPayments) = 1
       /\ \A p \in DOMAIN db.payments : p \in DOMAIN db'.payments
       /\ \A p \in NewPayments :
            IF HasAllowedExtension(resp'.form.proof[1])
              THEN /\ db'.payments[p].proof_path # NoProof
                   /\ db'.payments[p].proof_path \in files'
              ELSE /\ db'.payments[p].proof_path = NoProof
                   /\ files' = files]_vars

\* the admin's payment with a.PNG was stored with its proof, and the portal
\* payment with a.exe after it was stored without one, no second file kept
C12_Witness ==
  /\ resp.op = "portal_payments"
  /\ resp.form.proof = << <<"a", ".", "e", "x", "e">> >>
  /\ db.seq.payments = 2
  /\ DOMAIN db.payments = {1, 2}
  /\ db.payments[2].proof_path = NoProof
  /\ db.payments[1].proof_path = StoredName(2, 0, <<"a", ".", "P", "N", "G">>)
  /\ files = {db.payments[1].proof_path}

\* payment submissions with proof files while the clock advances
ProofNext ==
  \/ PaymentsProof("b1") /\ WithinRows(PayRows) /\ WithinFiles(MaxSubmissions)
  \/ PortalPaymentsProof("b2") /\ WithinRows(PayRows) /\ WithinFiles(MaxSubmissions)
  \/ Tick

ProofSpec == PayInit /\ [][ProofNext]_vars

\* C13: any two distinct payments with an accepted proof file, of different
\* students or of one student at any two points of a run, have different
\* stored file names.
C13_StoredNamesNeverCollide ==
  \A p, q \in DOMAIN db.payments :
    (p # q /\ db.payments[p].proof_path # NoProof /\ db.payments[q].proof_path # NoProof)
      => db.payments[p].proof_path # db.payments[q].proof_path


\* ------------------------------------------------------------------ issues
\* the students row whose user_id is uid, NULL when there is none
StudentOfUser(s, uid) ==
  IF uid # NULL /\ \E x \in DOMAIN s.students : s.students[x].user_id = uid
    THEN CHOOSE x \in DOMAIN s.students : s.students[x].user_id = uid
    ELSE NULL

\* a close action open to every role
AnyoneMayClose(sess) == TRUE

\* the negation of: if role != 'admin'
MayClose(sess) == sess.role = "admin"

\* a close action that flips the status
ToggleIssue(s, iid) ==
  IF iid \in DOMAIN s.issues
    THEN [s EXCEPT !.issues[iid].status = IF @ = "open" THEN "closed" ELSE "open"]
    ELSE s

\* UPDATE issues SET status='closed' WHERE id=?
CloseIssue(s, iid) ==
  IF iid \in DOMAIN s.issues THEN [s EXCEPT !.issues[iid].status = "closed"] ELSE s

\* a log action that takes the student from the form for every role
IssueStudentFromForm(s, sess, form) == form.student_id

\* the student_id of a new issue: the caller's own row for a student, the
\* form's student_id (blank is NULL) for every other role
IssueStudent(s, sess, form) ==
  IF sess.role = "student" THEN StudentOfUser(s, sess.user_id) ELSE form.student_id

\* issues(), POST: form.action is "close" or "log"
IssuesPost(s, fs, sess, form) ==
  IF form.action = "close"
    THEN IF ~MayClose(sess)
      THEN Reply("Not authorized", Page, s, fs)
      ELSE Reply("Issue closed", Page, CloseIssue(s, form.id), fs)
    ELSE LET r == InsertIssue(s, IssueStudent(s, sess, form)) IN
      IF r.ok THEN Reply("Issue logged", Page, r.store, fs)
              ELSE Reply(ServerError, Page, CloseUncommitted(s, r.store), fs)

\* issues(), GET and POST: form.action = "view" is a GET
IssuesRoute(s, fs, sess, form) ==
  IF form.action = "view" THEN Reply("", Page, s, fs) ELSE IssuesPost(s, fs, sess, form)

\* a listing that shows every issue to every role
IssuesViewAll(s, sess) == DOMAIN s.issues

\* the rows rendered by issues(): all issues for the admin, for every other
\* role the issues of the students row linked to the session's user
IssuesView(s, sess) ==
  IF sess.role = "admin" THEN DOMAIN s.issues
  ELSE IF StudentOfUser(s, sess.user_id) # NULL
    THEN {i \in DOMAIN s.issues : s.issues[i].student_id = StudentOfUser(s, sess.user_id)}
    ELSE {}

\* the forms a browser sends to /issues
IssueForms(s) ==
  {[action |-> "view", id |-> NULL, student_id |-> NULL]}
    \cup {[action |-> "log", id |-> NULL, student_id |-> x] : x \in 0..NextId(s, "students")}
    \cup {[action |-> "close", id |-> i, student_id |-> NULL] : i \in 1..NextId(s, "issues")}

\* the response of issues(): the listing is rendered when the page is
IssuesResp(c, form, r, sess) ==
  [op |-> "issues", client |-> c, form |-> form, flash |-> r.flash,
   redirect |-> r.redirect,
   rows |-> IF r.flash = ServerError \/ r.redirect # Page THEN {}
            ELSE IssuesView(r.store, sess)]

Issues(c) ==
  \E form \in IssueForms(db) :
    LET r == login_required(session[c], Path("/issues"), db, files,
                            IssuesRoute(db, files, session[c], form))
    IN /\ Served(r)
       /\ resp' = IssuesResp(c, form, r, session[c])
       /\ UNCHANGED <<session, now, conn, writer, tx>>

\* the store after two registrations and a user the admin created with the
\* role 'warden'
StaffStore == CreateUserTxn(PortalStore, "w1", "warden").store

\* browser b1 logged in as the admin, b2 as the student u1, b3 as the warden
StaffLoggedIn ==
  [c \in Clients |->
     LoginPost(StaffStore, LoggedOut,
               IF c = "b1" THEN "admin" ELSE IF c = "b2" THEN "u1" ELSE "w1",
               TRUE, NoPath).session]

IssueInit ==
  /\ db = StaffStore
  /\ session = StaffLoggedIn
  /\ files = {}
  /\ now = 0
  /\ resp = Resp("", "", NULL, NULL, NULL, 0)
  /\ conn = Idle
  /\ writer = {}
  /\ tx = EmptyStore

IssueRows == TotalRows(StaffStore) + MaxSubmissions

\* the admin, a student and a warden use the issue tracker while the admin
\* removes students
IssueNext ==
  \/ \E c \in Clients : Issues(c) /\ WithinRows(IssueRows)
  \/ DeleteStudent

IssueSpec == IssueInit /\ [][IssueNext]_vars


\* the issue rows a step adds
NewIssues == {i \in DOMAIN db'.issues : i \notin DOMAIN db.issues}

\* the students rows linked to the user of browser c's session
LinkedStudents(c) == {x \in DOMAIN db.students : db.students[x].user_id = session[c].user_id}

\* C14: an issue logged by a student-role session gets the id of the students
\* row linked to the session's user as its student_id, or NULL when that user
\* has no students row, whatever student_id the form carries.
C14_StudentIssueOwnProfile ==
  [][(resp'.op = "issues" /\ resp'.form.action = "log"
        /\ session[resp'.client].role = "student") =>
       /\ Cardinality(NewIssues) = 1
       /\ \A i \in NewIssues :
            IF LinkedStudents(resp'.client) = {}
              THEN db'.issues[i].student_id = NULL
              ELSE db'.issues[i].student_id \in LinkedStudents(resp'.client)]_vars

\* the student u1 (students row 1) sent student_id = 2 and the issue was
\* logged for student 1; an earlier one was logged for student 2 by the admin
C14_Witness ==
  /\ resp.op = "issues" /\ resp.form.action = "log" /\ resp.form.student_id = 2
  /\ session[resp.client].role = "student"
  /\ resp.flash = "Issue logged"
  /\ db.seq.issues = 2
  /\ db.issues[2].student_id = 1
  /\ db.issues[1].student_id = 2

\* C15: a close request from a logged-in session whose role is not admin is
\* answered 'Not authorized' and leaves every issue row as it was: nothing is
\* closed, nothing is logged.
C15_CloseNeedsAdmin ==
  [][(resp'.op = "issues" /\ resp'.form.action = "close"
        /\ session[resp'.client].user_id # NULL
        /\ session[resp'.client].role # "admin") =>
       /\ resp'.flash = "Not authorized"
       /\ db'.issues = db.issues]_vars

\* the warden asked to close issue 1, which is still open
C15_Witness ==
  /\ resp.op = "issues" /\ resp.form.action = "close"
  /\ session[resp.client].role = "warden"
  /\ resp.flash = "Not authorized"
  /\ resp.form.id \in DOMAIN db.issues
  /\ db.issues[resp.form.id].status = "open"

\* C16: every issue is created 'open', an issue's status changes only from
\* 'open' to 'closed', and a closed issue stays closed under every later
\* request.
C16_IssueStatusOneWay ==
  [][/\ \A i \in NewIssues : db'.issues[i].status = "open"
     /\ \A i \in DOMAIN db.issues :
          /\ i \in DOMAIN db'.issues
          /\ db'.issues[i].status \in {db.issues[i].status, "closed"}
          /\ db.issues[i].status = "closed" => db'.issues[i].status = "closed"]_vars

\* a close request of the admin for issue 1, answered after issue 2 had been
\* logged: issue 1 is closed, issue 2 is open
C16_Witness ==
  /\ resp.op = "issues" /\ resp.form.action = "close" /\ resp.form.id = 1
  /\ resp.flash = "Issue closed"
  /\ db.seq.issues = 2
  /\ db.issues[1].status = "closed"
  /\ db.issues[2].status = "open"

\* C17: the listing rendered for a student-role session holds exactly the
\* issues whose student_id is the id of the students row linked to the
\* session's user (none of another student, none with NULL student_id); the
\* listing rendered for the admin holds every issue.
C17_IssueListingScoped ==
  (resp.op = "issues" /\ resp.flash # ServerError /\ resp.redirect = Page) =>
    /\ session[resp.client].role = "student" =>
         resp.rows = {i \in DOMAIN db.issues :
                        /\ db.issues[i].student_id # NULL
                        /\ db.issues[i].student_id \in LinkedStudents(resp.client)}
    /\ session[resp.client].role = "admin" => resp.rows = DOMAIN db.issues

\* the student u1 sees the own issue 2 and not issue 1 of student 2
C17_Witness ==
  /\ resp.op = "issues" /\ resp.form.action = "view"
  /\ session[resp.client].role = "student"
  /\ resp.rows = {2}
  /\ DOMAIN db.issues = {1, 2}
  /\ db.issues[1].student_id = 2


\* --------------------------------------------- every route, behind its gate
\* rooms(): form.action is "view" (a GET), "create" or "delete"
RoomsRoute(s, fs, form) ==
  IF form.action = "view" THEN Reply("", Page, s, fs)
  ELSE LET o == IF form.action = "delete" THEN DeleteRoomTxn(s, form.id)
                ELSE CreateRoomTxn(s, form.number, form.capacity)
       IN Reply(o.flash, Page, o.store, fs)

\* students(): form.action is "view", "create" or "delete"
StudentsRoute(s, fs, form) ==
  IF form.action = "view" THEN Reply("", Page, s, fs)
  ELSE LET o == IF form.action = "delete" THEN DeleteStudentTxn(s, form.id)
                ELSE CreateStudentTxn(s, form.email)
       IN Reply(o.flash, Page, o.store, fs)

\* allocations(): form.action is "view", "allocate" or "release"
AllocationsRoute(s, fs, form) ==
  IF form.action = "view" THEN Reply("", Page, s, fs)
  ELSE LET o == IF form.action = "release" THEN ReleaseTxn(s, form.id)
                ELSE AllocateTxn(s, form.student_id, form.room_id)
       IN Reply(o.flash, Page, o.store, fs)

\* users(): form.action is "view" or "create"
UsersRoute(s, fs, form) ==
  IF form.action = "view" THEN Reply("", Page, s, fs)
  ELSE LET o == CreateUserTxn(s, form.username, Field(form.role, "admin"))
       IN Reply(o.flash, Page, o.store, fs)

\* UPDATE students SET email=?, ... WHERE id=?
UpdateStudent(s, sid, email) ==
  IF email # "" /\ \E x \in DOMAIN s.students : x # sid /\ s.students[x].email = email
    THEN Fail(s)
    ELSE Done([s EXCEPT !.students[sid].email = email])

\* portal_edit_profile(): form.action is "view" or "edit"
PortalProfileRoute(s, fs, sess, form) ==
  IF sess.role # "student" THEN Reply("", To("dashboard"), s, fs)
  ELSE IF current_student_row(s, sess) = NULL
    THEN Reply("Profile not found.", To("portal"), s, fs)
    ELSE IF form.action = "view" THEN Reply("", Page, s, fs)
    ELSE LET r == UpdateStudent(s, current_student_row(s, sess), form.email) IN
      IF r.ok THEN Reply("Profile updated", To("portal"), r.store, fs)
              ELSE Reply("Email already in use.", Page, CloseUncommitted(s, r.store), fs)

\* dashboard(): the admin's page, every other role is sent to the portal
DashboardGet(s, fs, sess) ==
  IF sess.role # "admin" THEN Reply("", To("portal"), s, fs) ELSE Reply("", Page, s, fs)

\* portal(), portal_rooms(): the student's pages, every other role is sent to
\* the dashboard
PortalGet(s, fs, sess) ==
  IF sess.role # "student" THEN Reply("", To("dashboard"), s, fs) ELSE Reply("", Page, s, fs)

\* the routes that only read: endpoint and path
ViewRoutes ==
  [dashboard |-> "/", portal |-> "/portal", portal_rooms |-> "/portal/rooms",
   report_occupancy |-> "/api/report/occupancy", report_income |-> "/api/report/income",
   export_students_csv |-> "/export/students.csv",
   export_payments_csv |-> "/export/payments.csv"]

\* the forms a browser sends to the admin's pages: the ids are those the page
\* offers
RoomForms(s) ==
  {[action |-> "view"], [action |-> "create", number |-> "B2", capacity |-> 1]}
    \cup {[action |-> "delete", id |-> i] : i \in DOMAIN s.rooms}
StudentForms(s) ==
  {[action |-> "view"], [action |-> "create", email |-> ""]}
    \cup {[action |-> "delete", id |-> i] : i \in DOMAIN s.students}
AllocationForms(s) ==
  {[action |-> "view"]}
    \cup {[action |-> "allocate", student_id |-> x, room_id |-> r] :
            x \in DOMAIN s.students, r \in DOMAIN s.rooms}
    \cup {[action |-> "release", id |-> a] : a \in DOMAIN s.allocations}
UserForms ==
  {[action |-> "view"], [action |-> "create", username |-> "u3", role |-> <<"student">>]}
ProfileForms == {[action |-> "view"], [action |-> "edit", email |-> "e1"]}

RoomsPage(c) ==
  \E form \in RoomForms(db) :
    LET r == admin_required(session[c], Path("/rooms"), db, files,
                            RoomsRoute(db, files, form))
    IN /\ Served(r)
       /\ resp' = WebResp("rooms", c, form, r.flash, r.redirect)
       /\ UNCHANGED <<session, now, conn, writer, tx>>

StudentsPage(c) ==
  \E form \in StudentForms(db) :
    LET r == admin_required(session[c], Path("/students"), db, files,
                            StudentsRoute(db, files, form))
    IN /\ Served(r)
       /\ resp' = WebResp("students", c, form, r.flash, r.redirect)
       /\ UNCHANGED <<session, now, conn, writer, tx>>

AllocationsPage(c) ==
  \E form \in AllocationForms(db) :
    LET r == admin_required(session[c], Path("/allocations"), db, files,
                            AllocationsRoute(db, files, form))
    IN /\ Served(r)
       /\ resp' = WebResp("allocations", c, form, r.flash, r.redirect)
       /\ UNCHANGED <<session, now, conn, writer, tx>>

UsersOf(c, forms) ==
  \E form \in forms :
    LET r == admin_required(session[c], Path("/users"), db, files,
                            UsersRoute(db, files, form))
    IN /\ Served(r)
       /\ resp' = WebResp("users", c, form, r.flash, r.redirect)
       /\ UNCHANGED <<session, now, conn, writer, tx>>

UsersPage(c) == UsersOf(c, UserForms)

PortalProfile(c) ==
  \E form \in ProfileForms :
    LET r == login_required(session[c], Path("/portal/profile"), db, files,
                            PortalProfileRoute(db, files, session[c], form))
    IN /\ Served(r)
       /\ resp' = WebResp("portal_edit_profile", c, form, r.flash, r.redirect)
       /\ UNCHANGED <<session, now, conn, writer, tx>>

\* dashboard, portal pages, reports and exports behind their gates
ViewReply(op, sess, s, fs) ==
  LET page == Reply("", Page, s, fs) IN
    IF op \in {"export_students_csv", "export_payments_csv"}
      THEN admin_required(sess, Path(ViewRoutes[op]), s, fs, page)
      ELSE login_required(sess, Path(ViewRoutes[op]), s, fs,
             IF op = "dashboard" THEN DashboardGet(s, fs, sess)
             ELSE IF op \in {"portal", "portal_rooms"} THEN PortalGet(s, fs, sess)
             ELSE page)

\* dashboard, portal pages, reports and exports: GET requests
View(c) ==
  \E op \in DOMAIN ViewRoutes :
    LET r == ViewReply(op, session[c], db, files)
    IN /\ Served(r)
       /\ resp' = WebResp(op, c, NoForm, r.flash, r.redirect)
       /\ UNCHANGED <<session, now, conn, writer, tx>>

\* send_from_directory(UPLOAD_FOLDER, fname): <<fname>> when the file is sent,
\* <<>> when there is no such file (404)
send_from_directory(fs, fname) == IF fname \in fs THEN <<fname>> ELSE <<>>

\* uploads(fname): a stored file or one that was never stored
Uploads(c) ==
  \E fname \in files \cup {StoredName(1, 0, <<"a", ".", "p", "n", "g">>)} :
    LET r == login_required(session[c], UploadPath(fname), db, files,
                            Reply("", Page, db, files))
        sent == IF session[c].user_id = NULL THEN <<>> ELSE send_from_directory(files, fname)
    IN /\ Served(r)
       /\ resp' = WebResp("uploads", c, [fname |-> fname, sent |-> sent], r.flash, r.redirect)
       /\ UNCHANGED <<session, now, conn, writer, tx>>

\* register() sent from browser c: the route has no gate
RegisterOf(c, usernames) ==
  \E username \in usernames, email \in {""} :
    LET o == RegisterTxn(db, username, email) IN
      /\ db' = o.store
      /\ resp' = WebResp("register", c, [username |-> username, email |-> email], o.flash,
                         IF o.flash = "Registration successful. Please login."
                           THEN To("login") ELSE Page)
      /\ UNCHANGED <<session, files, now, conn, writer, tx>>

RegisterBy(c) == RegisterOf(c, {"u3"})

\* the login form with the names of the users of StaffStore
Login(c) == LoginOf(c, {"admin", "u1", "w1"})

\* the admin form and the portal form with neither status nor proof part
PaymentsPlain(c) == PaymentsOf(c, {<<>>}, {<<>>})
PortalPaymentsPlain(c) == PortalPaymentsOf(c, {<<>>}, {<<>>})

\* the store of StaffStore with room A1, student 1 allocated to it and a
\* payment recorded for student 2
AuthStore ==
  RecordPaymentTxn(
    AllocateTxn(CreateRoomTxn(StaffStore, "A1", MaxCapacity).store, 1, 1).store,
    2, "Paid").store

AuthInit ==
  /\ db = AuthStore
  /\ Fresh
  /\ resp = Resp("", "", NULL, NULL, NULL, 0)
  /\ conn = Idle
  /\ writer = {}
  /\ tx = EmptyStore

\* what a store has been through: rows inserted (users aside, their names
\* are few), rooms and students deleted, allocations released, issues
\* closed, emails set
Churn(s) ==
  s.seq.rooms + s.seq.students + s.seq.allocations + s.seq.payments + s.seq.issues
    + (s.seq.rooms - Cardinality(DOMAIN s.rooms))
    + (s.seq.students - Cardinality(DOMAIN s.students))
    + Cardinality({a \in DOMAIN s.allocations : s.allocations[a].status = "released"})
    + Cardinality({i \in DOMAIN s.issues : s.issues[i].status = "closed"})
    + Cardinality({x \in DOMAIN s.students : s.students[x].email # ""})

\* the runs explored commit at most MaxWrites such changes
WithinWrites == Churn(db') <= Churn(AuthStore) + MaxWrites

\* one browser logs in and out as the admin, a student or the warden and
\* requests every route
AuthNext ==
  \E c \in {"b1"} :
    \/ Login(c)
    \/ Logout(c)
    \/ RegisterBy(c) /\ WithinWrites
    \/ RoomsPage(c) /\ WithinWrites
    \/ StudentsPage(c) /\ WithinWrites
    \/ AllocationsPage(c) /\ WithinWrites
    \/ PaymentsPlain(c) /\ WithinWrites
    \/ UsersPage(c)
    \/ Issues(c) /\ WithinWrites
    \/ PortalPaymentsPlain(c) /\ WithinWrites
    \/ PortalProfile(c) /\ WithinWrites
    \/ View(c)
    \/ Uploads(c)

AuthSpec == AuthInit /\ [][AuthNext]_vars


\* the protected routes and their paths, /uploads/<fname> aside
RoutePaths ==
  [rooms |-> "/rooms", students |-> "/students", allocations |-> "/allocations",
   payments |-> "/payments", users |-> "/users", issues |-> "/issues",
   portal_payments |-> "/portal/payments", portal_edit_profile |-> "/portal/profile",
   logout |-> "/logout", dashboard |-> "/", portal |-> "/portal",
   portal_rooms |-> "/portal/rooms", report_occupancy |-> "/api/report/occupancy",
   report_income |-> "/api/report/income", export_students_csv |-> "/export/students.csv",
   export_payments_csv |-> "/export/payments.csv"]

\* the path of the request answered by r
RequestedPath(r) ==
  IF r.op = "uploads" THEN [route |-> "/uploads/", arg |-> r.form.fname]
                      ELSE [route |-> RoutePaths[r.op], arg |-> <<>>]

\* C18: a request to a protected route from a browser without an
\* authenticated session is redirected to login with next = the requested
\* path, and changes no row, no file and no session; a logout leaves the
\* browser's session unauthenticated.
C18_UnauthenticatedRedirected ==
  [][/\ (resp'.op \in DOMAIN RoutePaths \cup {"uploads"}
           /\ session[resp'.client].user_id = NULL) =>
          /\ resp'.redirect = [to |-> "login", next |-> RequestedPath(resp')]
          /\ db' = db
          /\ files' = files
          /\ session' = session
     /\ resp'.op = "logout" => session'[resp'.client].user_id = NULL]_vars

\* after the admin created the user u3 and the session was cleared, the
\* request to delete room 1 was redirected to login and the room is there
C18_Witness ==
  /\ resp.op = "rooms" /\ resp.form.action = "delete" /\ resp.form.id = 1
  /\ session[resp.client] = LoggedOut
  /\ resp.redirect = [to |-> "login", next |-> [route |-> "/rooms", arg |-> <<>>]]
  /\ 1 \in DOMAIN db.rooms
  /\ \E u \in DOMAIN db.users : db.users[u].username = "u3"
  /\ \A x \in DOMAIN db.students : db.students[x].user_id # db.seq.users

AdminOnly ==
  {"rooms", "students", "allocations", "payments", "users", "export_students_csv",
   "export_payments_csv"}

\* the step answers a request of a student-role session
FromStudentSession == resp'.op # "" /\ session[resp'.client].role = "student"

\* the step leaves rooms, allocations and users as they were, and every
\* students row and payments row that is not the caller's own
OnlyOwnRowsTouched ==
  /\ db'.rooms = db.rooms
  /\ db'.allocations = db.allocations
  /\ db'.users = db.users
  /\ \A x \in (DOMAIN db.students \cup DOMAIN db'.students) \ LinkedStudents(resp'.client) :
       /\ x \in DOMAIN db.students /\ x \in DOMAIN db'.students
       /\ db'.students[x] = db.students[x]
  /\ \A p \in DOMAIN db.payments \cup DOMAIN db'.payments :
       \/ /\ p \in DOMAIN db.payments /\ p \in DOMAIN db'.payments
          /\ db'.payments[p] = db.payments[p]
       \/ /\ p \in DOMAIN db'.payments
          /\ db'.payments[p].student_id \in LinkedStudents(resp'.client)
          /\ p \in DOMAIN db.payments =>
               db.payments[p].student_id \in LinkedStudents(resp'.client)

\* the step is rejected with the warning and the redirect to the portal
RejectedAdminsOnly ==
  /\ resp'.flash = "Admins only."
  /\ resp'.redirect = [to |-> "portal", next |-> [route |-> "", arg |-> <<>>]]
  /\ db' = db
  /\ files' = files

\* C19 as stated: a request of a student-role session to an admin-only route
\* is rejected with 'Admins only.' and a redirect to the portal, and no
\* request of a student-role session creates, changes or deletes a row of
\* rooms, allocations, users, or a students or payments row other than the
\* caller's own.
C19_StudentSessionsOwnRowsOnly ==
  [][FromStudentSession =>
       /\ resp'.op \in AdminOnly => RejectedAdminsOnly
       /\ OnlyOwnRowsTouched]_vars

\* C19, amended: the same for every request of a student-role session other
\* than the registration form, which has no gate and adds a user and its
\* students row whatever session sends it.
C19_StudentSessionsOwnRowsOnlyBehindGates ==
  [][(FromStudentSession /\ resp'.op # "register") =>
       /\ resp'.op \in AdminOnly => RejectedAdminsOnly
       /\ OnlyOwnRowsTouched]_vars

\* the student u1 asked to delete room 1 and was sent to the portal with the
\* warning; the room is there
C19_Witness ==
  /\ resp.op = "rooms" /\ resp.form.action = "delete" /\ resp.form.id = 1
  /\ session[resp.client].role = "student"
  /\ resp.flash = "Admins only."
  /\ resp.redirect.to = "portal"
  /\ 1 \in DOMAIN db.rooms


\* ---------------------------------------------------------- deleting a room
\* the store after create_room('A1', 2), two create_student(),
\* create_room('B2', 1), and student 1 allocated to room 1, released and
\* allocated to it again
FrameStore ==
  AllocateTxn(
    ReleaseTxn(
      AllocateTxn(CreateRoomTxn(PopulatedStore(2, 2), "B2", 1).store, 1, 1).store,
      1).store,
    1, 1).store

FrameInit ==
  /\ db = FrameStore
  /\ Fresh
  /\ resp = Resp("", "", NULL, NULL, NULL, 0)
  /\ conn = Idle
  /\ writer = {}
  /\ tx = EmptyStore

FrameRows == TotalRows(FrameStore) + MaxAllocs

\* rooms are deleted while allocations, payments and issues come and go
FrameNext ==
  \/ DeleteRoom
  \/ DeleteStudent
  \/ Allocate /\ WithinRows(FrameRows)
  \/ Release
  \/ RecordPayment /\ WithinRows(FrameRows)
  \/ LogIssue /\ WithinRows(FrameRows)

FrameSpec == FrameInit /\ [][FrameNext]_vars

\* C20: delete_room(r) removes room r and every allocation on r, active or
\* released, and leaves the other rooms, the allocations of the other rooms,
\* and all students, payments, issues and users as they were.
C20_DeleteRoomFrame ==
  [][resp'.op = "delete_room" =>
       /\ DOMAIN db'.rooms = DOMAIN db.rooms \ {resp'.room_id}
       /\ \A r \in DOMAIN db'.rooms : db'.rooms[r] = db.rooms[r]
       /\ DOMAIN db'.allocations =
            {a \in DOMAIN db.allocations : db.allocations[a].room_id # resp'.room_id}
       /\ \A a \in DOMAIN db'.allocations : db'.allocations[a] = db.allocations[a]
       /\ db'.students = db.students
       /\ db'.payments = db.payments
       /\ db'.issues = db.issues
       /\ db'.users = db.users]_vars

\* room 1 was deleted with its released and its active allocation; room 2
\* and its allocation, a payment and an issue are there
C20_Witness ==
  /\ resp.op = "delete_room" /\ resp.room_id = 1
  /\ DOMAIN db.rooms = {2}
  /\ DOMAIN db.allocations = {3}
  /\ db.allocations[3].room_id = 2
  /\ db.rooms[2].occupied = 1
  /\ DOMAIN db.payments # {}
  /\ DOMAIN db.issues # {}

\* ------------------------------------------------- payments, once created
\* C21: a payment row is never changed by any request (student, status and
\* proof reference stay as inserted), and a payment row disappears only in a
\* step that deletes its student.
C21_PaymentsImmutable ==
  [][\A p \in DOMAIN db.payments :
       IF p \in DOMAIN db'.payments
         THEN db'.payments[p] = db.payments[p]
         ELSE /\ db.payments[p].student_id \in DOMAIN db.students
              /\ db.payments[p].student_id \notin DOMAIN db'.students]_vars

\* the admin removed student 1 and the allocation of student 1 went with it;
\* the payment of student 2 is there as it was recorded
C21_Witness ==
  /\ resp.op = "students" /\ resp.form.action = "delete" /\ resp.form.id = 1
  /\ resp.flash = "Student removed"
  /\ 1 \notin DOMAIN db.students
  /\ DOMAIN db.allocations = {}
  /\ 1 \in DOMAIN db.payments
  /\ db.payments[1] = AuthStore.payments[1]

\* the statuses of the review, as the admin form's select offers them
ReviewStatuses == {"Pending", "Approved", "Rejected"}

\* C22: every payment row's status is one of Pending, Approved, Rejected,
\* whatever the admin form and the portal form carried.
C22_PaymentStatusInDomain ==
  \A p \in DOMAIN db.payments : db.payments[p].status \in ReviewStatuses

\* ------------------------------------------------------- users and their roles
\* the role field of the create-user form: absent, one of the two options of
\* the page's select, or a value typed into a hand-made request
RoleFields == {<<>>, <<"admin">>, <<"student">>, <<"warden">>}

\* the create-user forms the admin's browser sends
AnyRoleForms ==
  {[action |-> "create", username |-> n, role |-> f] : n \in {"w1", "w2"}, f \in RoleFields}

\* browser b1 logged in as the seeded admin, the others not logged in
AdminLoggedIn ==
  [c \in Clients |->
     IF c = "b1" THEN LoginPost(EmptyStore, LoggedOut, "admin", TRUE, NoPath).session
                 ELSE LoggedOut]

RoleInit ==
  /\ db = EmptyStore
  /\ session = AdminLoggedIn
  /\ files = {}
  /\ now = 0
  /\ resp = Resp("", "", NULL, NULL, NULL, 0)
  /\ conn = Idle
  /\ writer = {}
  /\ tx = EmptyStore

\* the browser follows the redirect it was answered with: a GET of the
\* dashboard or of the portal
Follow(c) ==
  /\ resp.op # ""
  /\ resp.client = c
  /\ resp.redirect.to \in {"dashboard", "portal"}
  /\ LET r == ViewReply(resp.redirect.to, session[c], db, files)
     IN /\ Served(r)
        /\ resp' = WebResp(resp.redirect.to, c, NoForm, r.flash, r.redirect)
        /\ UNCHANGED <<session, now, conn, writer, tx>>

\* the runs explored hold at most MaxUsers users
WithinUsers == NextId(db, "users") <= MaxUsers

\* the admin creates users with any role field, a visitor registers; browser
\* b2 logs in as any of them, requests pages and follows the redirects
RoleNext ==
  \/ UsersOf("b1", AnyRoleForms) /\ WithinUsers
  \/ RegisterOf("b2", {"u1"}) /\ WithinUsers
  \/ LoginOf("b2", {"w1", "w2", "u1"})
  \/ Logout("b2")
  \/ View("b2")
  \/ Follow("b2")

RoleSpec == RoleInit /\ [][RoleNext]_vars

\* C23: every user row's role is 'admin' or 'student', each user is referenced
\* by at most one student row, and no step removes a user row.
C23_UserRolesAndLinks ==
  /\ [](\A u \in DOMAIN db.users : db.users[u].role \in {"admin", "student"})
  /\ [](\A u \in DOMAIN db.users :
          Cardinality({x \in DOMAIN db.students : db.students[x].user_id = u}) <= 1)
  /\ [][\A u \in DOMAIN db.users : u \in DOMAIN db'.users]_vars

\* ---------------------------------------------- allocate with a missing id
\* C24: an allocate request naming a room or a student that does not exist
\* ends with a notice, not with an unhandled exception, and leaves rooms and
\* allocations as they were.
C24_MissingIdHandled ==
  [][(/\ resp'.op = "allocate"
      /\ \/ resp'.room_id \notin DOMAIN db.rooms
         \/ resp'.student_id \notin DOMAIN db.students)
     => (/\ resp'.flash # ServerError
         /\ db'.rooms = db.rooms
         /\ db'.allocations = db.allocations)]_vars

\* ------------------------------------------------------- reading proof files
\* browser b1 logged in as the admin, b2 as the student u1, b3 as the student u2
PeerLoggedIn ==
  [c \in Clients |->
     LoginPost(PortalStore, LoggedOut,
               IF c = "b1" THEN "admin" ELSE IF c = "b2" THEN "u1" ELSE "u2",
               TRUE, NoPath).session]

UploadInit ==
  /\ db = PortalStore
  /\ session = PeerLoggedIn
  /\ files = {}
  /\ now = 0
  /\ resp = Resp("", "", NULL, NULL, NULL, 0)
  /\ conn = Idle
  /\ writer = {}
  /\ tx = EmptyStore

\* the proof part of a submission: the file a.png
PngProof == {<<<<"a", ".", "p", "n", "g">>>>}

\* the admin and the two students submit payments with the proof file, and
\* every browser asks for files of the upload folder
UploadNext ==
  \/ PaymentsOf("b1", {<<>>}, PngProof) /\ WithinRows(PayRows) /\ WithinFiles(MaxSubmissions)
  \/ \E c \in {"b2", "b3"} :
       /\ PortalPaymentsOf(c, {<<>>}, PngProof)
       /\ WithinRows(PayRows)
       /\ WithinFiles(MaxSubmissions)
  \/ \E c \in Clients : Uploads(c)
  \/ Tick

UploadSpec == UploadInit /\ [][UploadNext]_vars

\* C25: a GET /uploads/<name> from a student-role session is answered with a
\* stored file only if the file is the proof of one of the payments of the
\* student linked to the session.
C25_StudentsReadOwnProofsOnly ==
  [][(/\ resp'.op = "uploads"
      /\ session[resp'.client].role = "student"
      /\ resp'.form.sent # <<>>)
     => \E p \in DOMAIN db.payments :
          /\ db.payments[p].student_id = current_student_row(db, session[resp'.client])
          /\ db.payments[p].proof_path = resp'.form.fname]_vars

\* ------------------------------------------------- one student, one room
\* C26: no student holds more than one allocation with status 'active', in
\* one room or over several rooms.
C26_OneActivePerStudent ==
  \A x \in DOMAIN db.students :
    Cardinality({a \in DOMAIN db.allocations :
                   /\ db.allocations[a].student_id = x
                   /\ db.allocations[a].status = "active"}) <= 1

\* -------------------------------------------------- a room with free places
\* C27: an allocate of an existing student into an existing room that has
\* fewer active allocations than its capacity succeeds; it is never answered
\* 'Room is full'.
C27_FreePlaceNeverRejected ==
  [][(/\ resp'.op = "allocate"
      /\ resp'.student_id \in DOMAIN db.students
      /\ resp'.room_id \in DOMAIN db.rooms
      /\ ActiveCount(db, resp'.room_id) < db.rooms[resp'.room_id].capacity)
     => (/\ resp'.flash = "Allocated successfully"
         /\ ActiveCount(db', resp'.room_id) = ActiveCount(db, resp'.room_id) + 1)]_vars

\* ------------------------------------------------------ concurrent releases
\* C28: release requests that interleave on one active allocation lower the
\* room's occupied counter once in all: every committed release lowers the
\* counter by as much as it lowers the number of active allocations of the room.
C28_ConcurrentReleaseDecrementsOnce ==
  [][(/\ resp'.op = "release"
      /\ resp'.flash = "Released successfully"
      /\ resp'.room_id \in DOMAIN db.rooms)
     => db.rooms[resp'.room_id].occupied - db'.rooms[resp'.room_id].occupied
          = ActiveCount(db, resp'.room_id) - ActiveCount(db', resp'.room_id)]_vars

\* ---------------------------------------------------- following redirects
\* browsers follow the redirects they are answered with
RoleLiveSpec == RoleSpec /\ WF_vars(Follow("b2"))

\* the last answer sent browser c, logged in, to the dashboard or the portal
SentOn(c) ==
  /\ resp.op # ""
  /\ resp.client = c
  /\ session[c].user_id # NULL
  /\ resp.redirect.to \in {"dashboard", "portal"}

\* C29: a logged-in browser that is redirected to the dashboard or to the
\* portal (from /, /portal, an admin-only page or the login form) does not
\* stay redirected for ever: following the redirects ends at a page.
C29_RedirectsEnd == SentOn("b2") ~> ~SentOn("b2")

\* ------------------------------------------------ whose payment a portal
\* submission is
\* the portal form sent with a student_id field, which the page does not have
PortalPaymentsFor(c) ==
  \E sid \in StudentIds(db) :
    LET form == [student_id |-> sid, status |-> <<>>, proof |-> <<>>]
        r == login_required(session[c], Path("/portal/payments"), db, files,
                            PortalPaymentsPost(db, files, now, session[c], form))
    IN /\ Served(r)
       /\ resp' = WebResp("portal_payments", c, form, r.flash, r.redirect)
       /\ UNCHANGED <<session, now, conn, writer, tx>>

\* the store of StaffStore and a user the admin created with the role
\* 'student': a student login without a students row
ProfilelessStore == CreateUserTxn(StaffStore, "s9", "student").store

PortalInit ==
  /\ db = ProfilelessStore
  /\ session = StaffLoggedIn
  /\ files = {}
  /\ now = 0
  /\ resp = Resp("", "", NULL, NULL, NULL, 0)
  /\ conn = Idle
  /\ writer = {}
  /\ tx = EmptyStore

PortalRows == TotalRows(ProfilelessStore) + MaxSubmissions

\* the admin, the student u1 and a third browser, logged in as the warden or
\* as the student login without a profile, send the portal form while the
\* admin removes students
PortalNext ==
  \/ \E c \in Clients : PortalPaymentsFor(c) /\ WithinRows(PortalRows)
  \/ LoginOf("b3", {"w1", "s9"})
  \/ DeleteStudent

PortalSpec == PortalInit /\ [][PortalNext]_vars

\* C30: a payment created by a portal submission belongs to the students row
\* linked to the session's user, whatever student_id the form carries, and no
\* payment is created when the session's role is not 'student' or its user
\* has no students row.
C30_PortalPaymentOwnStudent ==
  [][resp'.op = "portal_payments" =>
       LET sess == session[resp'.client]
           own == IF sess.role = "student" THEN StudentOfUser(db, sess.user_id) ELSE NULL
       IN /\ \A p \in NewPayments : db'.payments[p].student_id = own
          /\ own = NULL => db'.payments = db.payments
          /\ \A p \in DOMAIN db.payments :
               p \in DOMAIN db'.payments /\ db'.payments[p] = db.payments[p]]_vars

\* the student u1, linked to student 1, sent the form with student_id 2 and
\* the payment created is of student 1
C30_Witness ==
  /\ resp.op = "portal_payments"
  /\ resp.form.student_id = 2
  /\ StudentOfUser(db, session[resp.client].user_id) = 1
  /\ resp.flash = "Payment submitted. Awaiting admin review."
  /\ db.seq.payments >= 1
  /\ db.seq.payments \in DOMAIN db.payments
  /\ db.payments[db.seq.payments].student_id = 1
  /\ 2 \in DOMAIN db.students

====
